---- MODULE Spec2Model ----
(***************************************************************************)
(* Chat-with-your-data: the self-correcting query engine (backend, as      *)
(* documented in the architecture notes) and the chat client               *)
(* (EnhancedChatInterface.tsx).                                            *)
(*                                                                         *)
(* Spec      : orchestration runs of answer_with_self_correction with the  *)
(*             similarity cache and the schema cache.                      *)
(* SpecFair  : one run, every completion and execution call returning.     *)
(* SpecPair  : consecutive runs for similar questions.                     *)
(* SpecChat  : the chat client: sendMessage, its response/error handlers   *)
(*             and the Clear Context button.                               *)
(* SpecChatFair : the chat client, every request settling.                 *)
(* SpecChatTyped : longer conversations, questions some ms apart.          *)
(* SpecHome  : the page with OAuth2Config and the connection components.   *)
(* SpecCache, SpecSchema : the caches of the service.                      *)
(* SpecIdentity : cache lookups of requests for both backend kinds.        *)
(* SpecSessions : two chat sessions against one backend.                   *)
(* SpecMonitor : the polling of RealTimeMonitoringDashboard.               *)
(* SpecChart : renderChart of IntelligentVisualization.                    *)
(***************************************************************************)
EXTENDS Integers, Sequences, FiniteSets, TLC

\* ---------------------------------------------------------------- bounds
MaxRuns == 1          \* orchestration runs explored by Spec
MaxPairRuns == 2      \* consecutive runs explored by SpecPair
MaxTurns == 2         \* chat turns explored by SpecChat
MaxTypedTurns == 4    \* chat turns explored by SpecChatTyped
MaxFairTurns == 2     \* chat turns explored by SpecChatFair
MaxFairRuns == 1      \* orchestration runs explored by SpecFair
MaxStores == 4        \* store operations explored by SpecCache
MaxIdentityStores == 2 \* store operations explored by SpecIdentity
MaxCallers == 3       \* concurrent callers of SchemaCache.get in SpecSchema
MaxEpochs == 2        \* cold periods per identity explored by SpecSchema
MaxSessionTurns == 2  \* questions per session explored by SpecSessions
MaxPolls == 4         \* monitoring polls explored by SpecMonitor
MaxStack == 3         \* call frames of renderChart before the stack is full
MaxOrphans == 2       \* requests of unmounted instances in flight, per kind, in SpecHome
MaxHomeTurns == 1     \* chat turns explored by SpecHome

\* ------------------------------------------------------- program constants
max_attempts == 3
similarity_threshold == 80      \* 0.8, in percent
ContextKeep == 2                \* prev.slice(-2)
cache_capacity == 2             \* capacity of the similarity cache
HistoryKeep == 19               \* prev.cacheHitRate.slice(-19)

\* ------------------------------------------------------------- input sets
\* A question is modelled by its normalized fingerprint, a set of tokens.
QA == {1, 2, 3, 4, 5}
QB == {1, 2, 3, 4, 5, 6}
QC == {1, 2, 3, 4}
Questions == {QA, QB, QC}

Queries == {"SELECT_A", "SELECT_B"}
NoQuery == ""
ErrorKinds == {"syntax", "permission", "timeout", "connection"}
RowCounts == {1, 2}

\* Python's None, what get_similar_query returns when no entry is similar: it
\* differs from every query text, the empty one included
None == "None"

\* what a completion call (_generate_query, _fix_query) does: it returns a
\* query text, returns the empty text, or raises
Raised == "raise"
Completions == Queries \cup {NoQuery, Raised}

VARIABLES
  \* ---- orchestration run (backend)
  pc,            \* IDLE, GENERATING, EXECUTING, CORRECTING, SYNTHESIZING, DONE
  question,      \* the question of the current run
  attempt,       \* loop variable of answer_with_self_correction (0-based)
  query,         \* the candidate query
  lastError,     \* result["error"] of the last execution ("" when none)
  attempts,      \* history: the executions of this run, one QueryAttempt each
  outcome,       \* "none"; "success"; the exception that left the function
                 \* ("NameError", "CompletionError"); "None" (no return)
  answer,        \* "none", "synthesized", "templated"
  row_count,     \* row count of the OrchestrationResult
  expired,       \* the caller-supplied deadline has elapsed
  query_cache,   \* CacheManager.query_cache, in insertion order
  schema_cache,  \* TRUE when the schema of the connection is cached
  nExec, nGen, nFix, nSynth, nDiscover,  \* collaborator calls of this run
  runs,          \* number of runs started
  cachedAtStart, \* history: what get_similar_query held for the question
                 \* when the run started (None when nothing)
  noopRepair,    \* a repair of this run returned the failed query unchanged
  pendingRepair, \* history: the query returned by the corrector since the
                 \* last failed execution
  prev,          \* the previous run, when it asked the same question within
                 \* the TTLs: its success and its calls (capped at 2)
  ttlOk,         \* nothing expired since the current run started
  \* ---- chat client
  loading,
  conversationContext,
  messages,
  inflight,      \* the request in flight (or NoRequest)
  input,
  turns,         \* history: questions sent so far
  dateNow,       \* Date.now() as read last
  contextLog,    \* history: every entry appended since the last clear
  lastTurn,      \* history: how the last completed turn ended
  cleared,       \* history: Clear Context was pressed and no question has
                 \* been sent since
  \* ---- the page (Home, OAuth2Config, FabricConnection, PowerBIMCPConnection)
  authConfigured,
  fabricConnected,
  semanticModelConnected,
  activeTab,
  connectionType,
  dataSourceType,
  statusPending, \* Home.checkConnectionStatus is in flight
  oauth,         \* state of OAuth2Config and its requests in flight
  fabric,        \* state of FabricConnection and its requests in flight
  powerbi,       \* state of PowerBIMCPConnection and its requests in flight
  issued,        \* history: the last connect request or chat question issued,
                 \* with the value of authConfigured at that moment
  chatOrphans,   \* questions of unmounted EnhancedChatInterface instances
                 \* still in flight
  \* ---- the caches of the service (EnhancedMultiAgentService)
  connection,    \* per backend kind: the identity connected (or NoConnection)
  query_similarity_cache,
  sql_schema_cache,
  model_info_cache,
  stored,        \* history: per question, the connection its entry was last
                 \* stored under and the time of that store
  clock,         \* number of store operations so far
  lastStore,     \* history: the last store operation
  served,        \* history: what the last similarity lookup returned
  schemaServed,  \* history: what the last schema lookup returned
  \* ---- SchemaCache under concurrent callers
  schemaCache,   \* per connection identity: state, schema, passes in flight
  callers,       \* per caller: where it is in SchemaCache.get, what it got
  \* ---- concurrent chat sessions
  sessions,      \* per session: the state of its EnhancedChatInterface
  conversation_history,  \* ContextManager.conversation_history
  \* ---- the monitoring dashboard (RealTimeMonitoringDashboard)
  historicalData,
  isConnected,
  monitorError,  \* the error state of the dashboard
  pollsInFlight, \* calls of fetchMonitoringData waiting for their response
  polls,         \* polls issued so far
  now,           \* the last reading of new Date()
  lastPoll,      \* history: how the last poll ended
  \* ---- the chart (IntelligentVisualization)
  chart          \* props, state and analysis of the component, the call
                 \* depth of renderChart and what it returned

runVars == <<pc, question, attempt, query, lastError, attempts, outcome, answer,
             row_count, expired, query_cache, schema_cache,
             nExec, nGen, nFix, nSynth, nDiscover, runs, cachedAtStart,
             noopRepair, pendingRepair, prev, ttlOk>>
chatVars == <<loading, conversationContext, messages, inflight, input, turns, dateNow, contextLog,
              lastTurn, cleared>>
homeVars == <<authConfigured, fabricConnected, semanticModelConnected, activeTab,
              connectionType, dataSourceType, statusPending, oauth, fabric, powerbi,
              issued, chatOrphans>>
cacheVars == <<connection, query_similarity_cache, sql_schema_cache, model_info_cache,
               stored, clock, lastStore, served, schemaServed>>
schemaVars == <<schemaCache, callers>>
sessionVars == <<sessions, conversation_history>>
monitorVars == <<historicalData, isConnected, monitorError, pollsInFlight, polls,
                 now, lastPoll>>
chartVars == <<chart>>
vars == <<runVars, chatVars, homeVars, cacheVars, schemaVars, sessionVars,
          monitorVars, chartVars>>

\* what the actions of one part leave unchanged
notRunVars == <<chatVars, homeVars, cacheVars, schemaVars, sessionVars,
  monitorVars, chartVars>>
notChatVars == <<runVars, homeVars, cacheVars, schemaVars, sessionVars,
  monitorVars, chartVars>>
notHomeVars == <<runVars, chatVars, cacheVars, schemaVars, sessionVars,
  monitorVars, chartVars>>
notHomeChatVars == <<runVars, cacheVars, schemaVars, sessionVars,
  monitorVars, chartVars>>
notCacheVars == <<runVars, chatVars, homeVars, schemaVars, sessionVars,
  monitorVars, chartVars>>
notSchemaVars == <<runVars, chatVars, homeVars, cacheVars, sessionVars,
  monitorVars, chartVars>>
notSessionVars == <<runVars, chatVars, homeVars, cacheVars, schemaVars,
  monitorVars, chartVars>>
notMonitorVars == <<runVars, chatVars, homeVars, cacheVars, schemaVars, sessionVars,
  chartVars>>
notChartVars == <<runVars, chatVars, homeVars, cacheVars, schemaVars, sessionVars,
  monitorVars>>

\* ------------------------------------------------------------- helpers
\* _calculate_similarity: token-set overlap of the two fingerprints, percent.
calculate_similarity(a, b) ==
  (Cardinality(a \cap b) * 100) \div Cardinality(a \cup b)

RECURSIVE FirstSimilar(_, _, _)
FirstSimilar(cache, q, i) ==
  IF i > Len(cache) THEN None
  ELSE IF calculate_similarity(q, cache[i].question) > similarity_threshold
       THEN cache[i].query
       ELSE FirstSimilar(cache, q, i + 1)

\* CacheManager.get_similar_query: first entry, in insertion order, whose
\* similarity to the question is strictly above the threshold.
get_similar_query(cache, q) == FirstSimilar(cache, q, 1)

HasKey(cache, q) == \E i \in 1..Len(cache) : cache[i].question = q

\* the entries of the cache but the one of question q
Without(cache, q) == SelectSeq(cache, LAMBDA e : e.question # q)

\* variant: nothing is evicted
store_unbounded(cache, q, qry) ==
  Append(Without(cache, q), [question |-> q, query |-> qry])

\* QuerySimilarityCache.store: the entry of the fingerprint is overwritten, a
\* new entry into a full cache evicts the least recently stored one. The
\* cache is kept in the order of the last store, oldest first.
store(cache, q, qry) ==
  LET rest == Without(cache, q)
      kept == IF Len(rest) >= cache_capacity THEN Tail(rest) ELSE rest
  IN Append(kept, [question |-> q, query |-> qry])

RemoveAt(s, i) == [j \in 1..(Len(s) - 1) |-> IF j < i THEN s[j] ELSE s[j + 1]]

\* variant: every attempt is recorded as successful
QueryAttempt_ok(qry, ok, err, rows) ==
  [query |-> qry, success |-> TRUE, error |-> err, row_count |-> rows]

QueryAttempt(qry, ok, err, rows) ==
  [query |-> qry, success |-> ok, error |-> err, row_count |-> rows]

\* the values of the loop variable: range(max_attempts)
AttemptRange == 0..(max_attempts - 1)

Environmental == {"connection", "permission"}
Eligible == ErrorKinds \ Environmental

\* variant of the retry test: no correction of an environmental error
MayCorrect_kinds(a, kind) == a < max_attempts - 1 /\ kind \notin Environmental

\* elif attempt < max_attempts - 1
MayCorrect(a, kind) == a < max_attempts - 1

Min(a, b) == IF a < b THEN a ELSE b
NoPrev == [same |-> FALSE, ok |-> FALSE, nGen |-> 0, nDiscover |-> 0]

\* ------------------------------------------------------------- Init
RunInit ==
  /\ pc = "IDLE" /\ question = {} /\ attempt = 0 /\ query = NoQuery
  /\ lastError = "" /\ attempts = <<>> /\ outcome = "none" /\ answer = "none"
  /\ row_count = 0 /\ expired = FALSE
  /\ query_cache = <<>> /\ schema_cache = FALSE
  /\ nExec = 0 /\ nGen = 0 /\ nFix = 0 /\ nSynth = 0 /\ nDiscover = 0
  /\ runs = 0 /\ cachedAtStart = None /\ noopRepair = FALSE
  /\ pendingRepair = NoQuery
  /\ prev = NoPrev /\ ttlOk = TRUE

NoRequest == [sent |-> FALSE, question |-> "", context_history |-> <<>>,
              thinkingId |-> 0]

Message(id, sender, text, success) ==
  [id |-> id, sender |-> sender, text |-> text, success |-> success]

ChatInit ==
  /\ loading = FALSE /\ conversationContext = <<>> /\ inflight = NoRequest
  /\ messages = <<Message(1, "assistant", "Welcome", "unset")>>
  /\ input = "" /\ turns = 0 /\ dateNow = 2 /\ contextLog = <<>> /\ lastTurn = "none"
  /\ cleared = FALSE

\* FabricConnection / PowerBIMCPConnection as mounted: useState(...). own: a
\* connect request of this instance is in flight; orphan: the number of
\* connect requests of unmounted instances in flight (statusOwn, statusOrphan:
\* the same for the status request of PowerBIMCPConnection). ended (history): how the last connect attempt of this instance
\* ended, "none" while there is none or one is under way.
FreshFabric ==
  [connected |-> FALSE, showForm |-> TRUE, loading |-> FALSE, error |-> "",
   ended |-> "none", own |-> FALSE, orphan |-> 0]
FreshPowerBI ==
  [connected |-> FALSE, showForm |-> TRUE, loading |-> FALSE, error |-> "",
   ended |-> "none", own |-> FALSE, orphan |-> 0,
   statusOwn |-> FALSE, statusOrphan |-> 0]

NoneIssued == [kind |-> "none", auth |-> FALSE]

\* Home and OAuth2Config after the first render: both status requests of the
\* useEffect hooks are in flight.
HomeInit ==
  /\ authConfigured = FALSE /\ fabricConnected = FALSE
  /\ semanticModelConnected = FALSE /\ activeTab = "chat"
  /\ connectionType = "null" /\ dataSourceType = "sql"
  /\ statusPending = TRUE
  /\ oauth = [authenticated |-> FALSE, loading |-> FALSE, showForm |-> TRUE,
              statusPending |-> TRUE, configurePending |-> FALSE]
  /\ fabric = FreshFabric
  /\ powerbi = FreshPowerBI
  /\ issued = NoneIssued
  /\ chatOrphans = 0

\* connection identities: (backend kind, endpoint, database / dataset name)
Identities ==
  { <<"sql", "ep1", "db1">>, <<"sql", "ep1", "db2">>,
    <<"semantic_model", "ep2", "ds1">> }
NoConnection == <<>>
\* connection_type of a request: "sql|semantic_model"
Kinds == {"sql", "semantic_model"}
NoSchema == <<>>
NoStore == [question |-> {}, query |-> NoQuery]
NotServed == [hit |-> FALSE, under |-> NoConnection, by |-> NoConnection,
              query |-> None]

\* the service after construction: no connection, empty caches
CacheInit ==
  /\ connection = [kind \in Kinds |-> NoConnection]
  /\ query_similarity_cache = <<>>
  /\ sql_schema_cache = NoSchema /\ model_info_cache = NoSchema
  /\ stored = [q \in Questions |-> [under |-> NoConnection, at |-> 0]]
  /\ clock = 0 /\ lastStore = NoStore
  /\ served = NotServed
  /\ schemaServed = [under |-> NoConnection, schema |-> NoSchema]

IdleCaller == [at |-> "idle", id |-> <<>>, schema |-> NoQuery, epoch |-> 0,
               waited |-> FALSE]
ColdSchema == [state |-> "cold", schema |-> NoQuery, pending |-> 0, passes |-> 0,
               epoch |-> 1]

\* a cold SchemaCache and no caller
SchemaInit ==
  /\ schemaCache = [id \in {<<"sql", "ep1", "db1">>, <<"semantic_model", "ep2", "ds1">>}
                      |-> ColdSchema]
  /\ callers = [c \in 1..MaxCallers |-> IdleCaller]

\* no answer of the backend is on its way to the client
NoResponse == [success |-> FALSE, query |-> "", query_language |-> "",
               answer |-> "none", data |-> 0]

\* every instance as mounted, and ContextManager.__init__
SessionInit ==
  /\ sessions = [s \in {"A", "B"} |->
                   [loading |-> FALSE, conversationContext |-> <<>>,
                    inflight |-> NoRequest, response |-> NoResponse, turns |-> 0]]
  /\ conversation_history = <<>>

\* one data point of a history series
Point(ts, v) == [timestamp |-> ts, value |-> v]

\* the health part of a successful answer of GET /api/analytics/system-health
MonitorResponses ==
  { [hit_rate_percentage |-> 50, score |-> 90, cpu_usage_percent |-> 10],
    [hit_rate_percentage |-> 75, score |-> 60, cpu_usage_percent |-> 30] }

\* the history after n successful polls that all got the same answer
Prefilled(n) ==
  [cacheHitRate |-> [i \in 1..n |-> Point(i, 50)],
   systemHealth |-> [i \in 1..n |-> Point(i, 90)],
   performance  |-> [i \in 1..n |-> Point(i, 10)]]

\* RealTimeMonitoringDashboard as mounted: the initial fetch is in flight
MonitorInit ==
  /\ historicalData = Prefilled(0)
  /\ isConnected = FALSE /\ monitorError = "null"
  /\ pollsInFlight = 1 /\ polls = 1 /\ now = 0 /\ lastPoll = "none"

\* ... and after HistoryKeep - 1 successful polls, between two polls
MonitorWarm ==
  /\ historicalData = Prefilled(HistoryKeep - 1)
  /\ isConnected = TRUE /\ monitorError = "null"
  /\ pollsInFlight = 0 /\ polls = 0 /\ now = HistoryKeep - 1 /\ lastPoll = "ok"

ChartTypes == {"line", "area", "bar", "pie", "scatter"}

\* IntelligentVisualization as mounted with no data
ChartInit ==
  chart = [selectedType |-> "null", preferredType |-> "auto",
           recommendedType |-> "bar", rows |-> 0, depth |-> 0,
           rendered |-> "none"]

Init ==
  /\ RunInit /\ ChatInit /\ HomeInit /\ CacheInit /\ SchemaInit /\ SessionInit
  /\ MonitorInit /\ ChartInit

\* ------------------------------------------------------------- the run
\* def answer_with_self_correction(self, question): max_attempts = 3 and the
\* first iteration of the loop. zero: the caller's deadline is 0, that is
\* already elapsed; the function takes no deadline and never looks at one.
StartRun(q, zero) ==
  /\ pc \in {"IDLE", "DONE"}
  /\ runs' = runs + 1
  /\ prev' = IF pc = "DONE" /\ q = question /\ ttlOk
             THEN [same |-> TRUE, ok |-> (outcome = "success"),
                   nGen |-> Min(nGen, 2),
                   nDiscover |-> Min(nDiscover, 2)]
             ELSE NoPrev
  /\ ttlOk' = TRUE
  /\ pc' = "GENERATING"
  /\ question' = q
  /\ expired' = zero
  /\ cachedAtStart' = get_similar_query(query_cache, q)
  /\ attempt' = 0 /\ query' = NoQuery /\ lastError' = "" /\ attempts' = <<>>
  /\ outcome' = "none" /\ answer' = "none" /\ row_count' = 0
  /\ nExec' = 0 /\ nGen' = 0 /\ nFix' = 0 /\ nSynth' = 0 /\ nDiscover' = 0
  /\ noopRepair' = FALSE
  /\ pendingRepair' = NoQuery
  /\ UNCHANGED <<query_cache, schema_cache>>
  /\ UNCHANGED notRunVars

\* Inside _generate_query: the schema is read through the schema cache and
\* discovered when it is not cached.
SchemaLookup ==
  /\ schema_cache' = TRUE
  /\ nDiscover' = IF schema_cache THEN nDiscover ELSE nDiscover + 1

\* query = await self._generate_query(question). Whatever is returned, the
\* empty text included, becomes the query to execute; an exception raised by
\* the call leaves the function.
generate_query(out) ==
  /\ pc = "GENERATING"
  /\ nGen' = nGen + 1
  /\ SchemaLookup
  /\ IF out = Raised
     THEN /\ pc' = "DONE"
          /\ outcome' = "CompletionError"
          /\ UNCHANGED query
     ELSE /\ query' = out
          /\ pc' = "EXECUTING"
          /\ UNCHANGED outcome
  /\ UNCHANGED <<question, attempt, lastError, attempts, answer, row_count, expired,
                 query_cache, nExec, nFix, nSynth, runs, cachedAtStart,
                 noopRepair, pendingRepair, prev, ttlOk>>
  /\ UNCHANGED notRunVars

\* variant: the loop variable is not advanced
NextAttempt_stuck(a) == a

\* next value of the loop variable: for attempt in range(max_attempts)
NextAttempt(a) == a + 1

ExecOutcomes ==
  [ok : {TRUE}, rows : RowCounts, kind : {""}] \cup
  [ok : {FALSE}, rows : {0}, kind : ErrorKinds]

\* return self._format_error_response(attempts): the name attempts is bound
\* nowhere in the function, so evaluating the argument raises NameError and
\* the function returns nothing.
format_error_response ==
  /\ pc' = "DONE"
  /\ outcome' = "NameError"

\* variant: the execution is recorded only after its repair has started
execute_query_late(res) ==
  /\ pc = "EXECUTING"
  /\ nExec' = nExec + 1
  /\ pendingRepair' = IF res.ok THEN pendingRepair ELSE NoQuery
  /\ lastError' = res.kind
  /\ IF res.ok
     THEN /\ pc' = "SYNTHESIZING"
          /\ row_count' = res.rows
          /\ attempts' = Append(attempts,
                           QueryAttempt(query, res.ok, res.kind, res.rows))
          /\ UNCHANGED outcome
     ELSE IF MayCorrect(attempt, res.kind)
     THEN /\ pc' = "CORRECTING"
          /\ UNCHANGED <<attempts, outcome, row_count>>
     ELSE /\ format_error_response
          /\ attempts' = Append(attempts,
                           QueryAttempt(query, res.ok, res.kind, res.rows))
          /\ UNCHANGED row_count
  /\ UNCHANGED <<question, attempt, query, answer, expired, query_cache, schema_cache,
                 nGen, nFix, nSynth, nDiscover, runs, cachedAtStart,
                 noopRepair, prev, ttlOk>>
  /\ UNCHANGED notRunVars

\* result = self._execute_query(query), and the three branches on the result:
\* success, to _format_success_response(result); a failure before the last
\* iteration, to _fix_query; a failure in the last iteration, to the error
\* response. attempts records the execution (history, the function itself
\* keeps no list).
execute_query(res) ==
  /\ pc = "EXECUTING"
  /\ nExec' = nExec + 1
  /\ attempts' = Append(attempts, QueryAttempt(query, res.ok, res.kind, res.rows))
  /\ pendingRepair' = IF res.ok THEN pendingRepair ELSE NoQuery
  /\ lastError' = res.kind
  /\ IF res.ok
     THEN /\ pc' = "SYNTHESIZING"
          /\ row_count' = res.rows
          /\ UNCHANGED outcome
     ELSE IF MayCorrect(attempt, res.kind)
     THEN /\ pc' = "CORRECTING"
          /\ UNCHANGED <<outcome, row_count>>
     ELSE /\ format_error_response
          /\ UNCHANGED row_count
  /\ UNCHANGED <<question, attempt, query, answer, expired, query_cache, schema_cache,
                 nGen, nFix, nSynth, nDiscover, runs, cachedAtStart,
                 noopRepair, prev, ttlOk>>
  /\ UNCHANGED notRunVars

\* query = await self._fix_query(query, result["error"]), then the next
\* iteration of the loop, which starts with _generate_query. Whatever is
\* returned is assigned, the empty text included; an exception raised by the
\* call leaves the function. A loop that runs out of iterations ends the
\* function without a return value.
fix_query(out) ==
  /\ pc = "CORRECTING"
  /\ nFix' = nFix + 1
  /\ IF out = Raised
     THEN /\ pc' = "DONE"
          /\ outcome' = "CompletionError"
          /\ UNCHANGED <<attempt, query, noopRepair, pendingRepair>>
     ELSE /\ query' = out
          /\ pendingRepair' = out
          /\ noopRepair' = (noopRepair \/ out = query)
          /\ attempt' = NextAttempt(attempt)
          /\ IF NextAttempt(attempt) \in AttemptRange
             THEN /\ pc' = "GENERATING"
                  /\ UNCHANGED outcome
             ELSE /\ pc' = "DONE"
                  /\ outcome' = "None"
  /\ UNCHANGED <<question, lastError, attempts, answer, row_count, expired,
                 query_cache, schema_cache, nExec, nGen, nSynth, nDiscover, runs,
                 cachedAtStart, prev, ttlOk>>
  /\ UNCHANGED notRunVars

\* variant: a failed synthesis fails the whole turn
Synthesize_fails(ok) ==
  /\ pc = "SYNTHESIZING"
  /\ pc' = "DONE"
  /\ nSynth' = nSynth + 1
  /\ IF ok
     THEN /\ outcome' = "success"
          /\ answer' = "synthesized"
          /\ query_cache' = store(query_cache, question, query)
          /\ UNCHANGED row_count
     ELSE /\ outcome' = "CompletionError"
          /\ answer' = "none"
          /\ row_count' = 0
          /\ UNCHANGED query_cache
  /\ UNCHANGED <<question, attempt, query, lastError, attempts,
                 expired, schema_cache, nExec, nGen, nFix, nDiscover,
                 runs, cachedAtStart, noopRepair, pendingRepair, prev, ttlOk>>
  /\ UNCHANGED notRunVars

\* return self._format_success_response(result): DONE(success). The query is
\* stored into the similarity cache and the answer is synthesized; a failed
\* completion (ok = FALSE) falls back to the templated answer.
Synthesize(ok) ==
  /\ pc = "SYNTHESIZING"
  /\ pc' = "DONE"
  /\ outcome' = "success"
  /\ query_cache' = store(query_cache, question, query)
  /\ nSynth' = nSynth + 1
  /\ answer' = IF ok THEN "synthesized" ELSE "templated"
  /\ UNCHANGED <<question, attempt, query, lastError, attempts, row_count,
                 expired, schema_cache, nExec, nGen, nFix, nDiscover,
                 runs, cachedAtStart, noopRepair, pendingRepair, prev, ttlOk>>
  /\ UNCHANGED notRunVars

\* The deadline of the caller elapses while the run is under way.
DeadlinePasses ==
  /\ pc \notin {"IDLE", "DONE"}
  /\ ~expired
  /\ expired' = TRUE
  /\ UNCHANGED <<pc, question, attempt, query, lastError, attempts, outcome, answer,
                 row_count, query_cache, schema_cache,
                 nExec, nGen, nFix, nSynth, nDiscover, runs, cachedAtStart,
                 noopRepair, pendingRepair, prev, ttlOk>>
  /\ UNCHANGED notRunVars

\* The TTL of the cached schema (1 hour) runs out; a run lasts seconds, so
\* expiry is taken between runs.
ExpireSchema ==
  /\ pc \in {"IDLE", "DONE"}
  /\ schema_cache
  /\ schema_cache' = FALSE
  /\ ttlOk' = FALSE
  /\ UNCHANGED <<pc, question, attempt, query, lastError, attempts, outcome, answer,
                 row_count, expired, query_cache,
                 nExec, nGen, nFix, nSynth, nDiscover, runs, cachedAtStart,
                 noopRepair, pendingRepair, prev>>
  /\ UNCHANGED notRunVars

\* The TTL of a similarity-cache entry (30 minutes) runs out, between runs.
ExpireQuery(i) ==
  /\ pc \in {"IDLE", "DONE"}
  /\ i \in 1..Len(query_cache)
  /\ query_cache' = RemoveAt(query_cache, i)
  /\ ttlOk' = FALSE
  /\ UNCHANGED <<pc, question, attempt, query, lastError, attempts, outcome, answer,
                 row_count, expired, schema_cache,
                 nExec, nGen, nFix, nSynth, nDiscover, runs, cachedAtStart,
                 noopRepair, pendingRepair, prev>>
  /\ UNCHANGED notRunVars

Next ==
  \/ \E q \in Questions, zero \in BOOLEAN : runs < MaxRuns /\ StartRun(q, zero)
  \/ \E out \in Completions : generate_query(out)
  \/ \E res \in ExecOutcomes : execute_query(res)
  \/ \E out \in Completions : fix_query(out)
  \/ \E ok \in BOOLEAN : Synthesize(ok)
  \/ DeadlinePasses
  \/ ExpireSchema
  \/ \E i \in 1..cache_capacity : ExpireQuery(i)

Spec == Init /\ [][Next]_vars

\* A step of the run under way. Every completion and execution call
\* eventually returns or raises, so a run that can take a step eventually
\* takes one.
RunStep ==
  \/ \E out \in Completions : generate_query(out)
  \/ \E res \in ExecOutcomes : execute_query(res)
  \/ \E out \in Completions : fix_query(out)
  \/ \E ok \in BOOLEAN : Synthesize(ok)

NextFair ==
  \/ \E q \in Questions, zero \in BOOLEAN : runs < MaxFairRuns /\ StartRun(q, zero)
  \/ \E out \in Completions : generate_query(out)
  \/ \E res \in ExecOutcomes : execute_query(res)
  \/ \E out \in Completions : fix_query(out)
  \/ \E ok \in BOOLEAN : Synthesize(ok)
  \/ DeadlinePasses

SpecFair == Init /\ [][NextFair]_vars /\ WF_vars(RunStep)

\* Consecutive runs of one process, for questions that are similar to each
\* other, over a backend that answers or reports a syntax error.
PairQuestions == {QA, QB}
PairOutcomes == { res \in ExecOutcomes : res.kind \in {"", "syntax"} /\ res.rows <= 1 }

NextPair ==
  \/ \E q \in PairQuestions : runs < MaxPairRuns /\ StartRun(q, FALSE)
  \/ \E out \in Queries \cup {NoQuery} : generate_query(out)
  \/ \E res \in PairOutcomes : execute_query(res)
  \/ \E out \in Queries : fix_query(out)
  \/ \E ok \in BOOLEAN : Synthesize(ok)
  \/ ExpireSchema
  \/ \E i \in 1..cache_capacity : ExpireQuery(i)

SpecPair == Init /\ [][NextPair]_vars

\* ------------------------------------------------------------- chat client
Inputs == {"", "  ", "Q1", "Q2"}
NoText == "undefined"

\* String.prototype.trim on the inputs of the model
Trim(str) == IF str = "  " THEN "" ELSE str

\* response.data of POST /api/chat/unified, as the client reads it
Results ==
  { [success |-> TRUE,  query |-> "SELECT_A", query_language |-> "DAX", answer |-> "Answer"],
    [success |-> TRUE,  query |-> "SELECT_B", query_language |-> "",    answer |-> ""],
    [success |-> TRUE,  query |-> "",         query_language |-> "DAX", answer |-> "Answer"],
    [success |-> FALSE, query |-> "SELECT_A", query_language |-> "DAX", answer |-> "Failed"],
    [success |-> FALSE, query |-> "",         query_language |-> "",    answer |-> ""] }

\* `Q: ${question}\n${result.query_language || 'Query'}: ${result.query}`
ContextEntry(q, result) ==
  <<"Q: ", q,
    IF result.query_language = "" THEN "Query" ELSE result.query_language,
    ": ", result.query>>

\* Array.prototype.slice(-n)
SliceLast(s, n) ==
  IF Len(s) <= n THEN s ELSE SubSeq(s, Len(s) - n + 1, Len(s))

\* variant: the success flag of the result is not tested
AppendsContext_anyquery(result) == result.query # ""

\* if (result.success && result.query)
AppendsContext(result) == result.success /\ result.query # ""

\* variant: one entry too many is kept
setConversationContext_keep3(ctx, entry) == Append(SliceLast(ctx, ContextKeep + 1), entry)

\* setConversationContext(prev => [...prev.slice(-2), contextEntry])
setConversationContext(ctx, entry) == Append(SliceLast(ctx, ContextKeep), entry)

\* prev.map(msg => msg.id === thinkingId ? {...} : msg)
setMessages(msgs, id, text, success) ==
  [i \in 1..Len(msgs) |->
     IF msgs[i].id = id THEN Message(id, msgs[i].sender, text, success)
     ELSE msgs[i]]

\* onChange of the textarea, useSuggestedQuestion: setInput
setInput(str) ==
  /\ input' = str
  /\ UNCHANGED <<loading, conversationContext, messages, inflight, turns, dateNow,
                 contextLog, lastTurn, cleared>>
  /\ UNCHANGED notChatVars

\* what Date.now() may have advanced by, in milliseconds, since it was read
\* last: between two questions, and between the two readings of one question
Elapsed == {0, 1, 2}
Within == {0, 1}

\* messageText || input, if (!messageText): undefined and the empty text are
\* falsy
Falsy(str) == str \in {NoText, ""}

\* variant: loading is not tested
sendMessage_noloading(messageText, dt, dt2) ==
  LET q == IF Falsy(messageText) THEN input ELSE messageText
      userId == dateNow + dt
      thinkingId == userId + dt2 + 1
  IN
  /\ ~(Trim(q) = "")
  /\ turns' = turns + 1
  /\ dateNow' = userId + dt2
  /\ messages' = messages \o
        << Message(userId, "user", q, "unset"),
           Message(thinkingId, "assistant", "Analyzing", "unset") >>
  /\ input' = IF Falsy(messageText) THEN "" ELSE input
  /\ loading' = TRUE
  /\ inflight' = [sent |-> TRUE, question |-> q,
                  context_history |-> conversationContext,
                  thinkingId |-> thinkingId]
  /\ cleared' = FALSE
  /\ UNCHANGED <<conversationContext, contextLog, lastTurn>>
  /\ UNCHANGED notChatVars

\* sendMessage up to the await of axios.post, on the state of the component.
\* The user message gets the id Date.now(), read dt ms after the last
\* reading, the placeholder the id Date.now() + 1, read dt2 ms later.
Send(messageText, dt, dt2) ==
  LET q == IF Falsy(messageText) THEN input ELSE messageText
      userId == dateNow + dt
      thinkingId == userId + dt2 + 1
  IN
  /\ ~(Trim(q) = "" \/ loading)
  /\ turns' = turns + 1
  /\ dateNow' = userId + dt2
  /\ messages' = messages \o
        << Message(userId, "user", q, "unset"),
           Message(thinkingId, "assistant", "Analyzing", "unset") >>
  /\ input' = IF Falsy(messageText) THEN "" ELSE input
  /\ loading' = TRUE
  /\ inflight' = [sent |-> TRUE, question |-> q,
                  context_history |-> conversationContext,
                  thinkingId |-> thinkingId]
  /\ cleared' = FALSE
  /\ UNCHANGED <<conversationContext, contextLog, lastTurn>>

\* sendMessage of a chat interface on its own
sendMessage(messageText, dt, dt2) ==
  /\ Send(messageText, dt, dt2)
  /\ UNCHANGED notChatVars

\* the try block after the await, and finally
Respond(result) ==
  /\ inflight.sent
  /\ messages' = setMessages(messages, inflight.thinkingId,
                    IF result.answer = "" THEN "Analysis completed" ELSE result.answer,
                    IF result.success THEN "true" ELSE "false")
  /\ conversationContext' =
        IF AppendsContext(result)
        THEN setConversationContext(conversationContext, ContextEntry(inflight.question, result))
        ELSE conversationContext
  /\ contextLog' =
        IF result.success /\ result.query # ""
        THEN Append(contextLog, ContextEntry(inflight.question, result))
        ELSE contextLog
  /\ lastTurn' = IF ~result.success THEN "failed"
                 ELSE IF result.query = "" THEN "success_no_query"
                 ELSE "success"
  /\ loading' = FALSE
  /\ inflight' = NoRequest
  /\ UNCHANGED <<input, turns, dateNow, cleared>>
  /\ UNCHANGED notChatVars

\* variant: loading is reset only after an answer
RespondError_nofinally ==
  /\ inflight.sent
  /\ messages' = setMessages(messages, inflight.thinkingId, "Sorry", "false")
  /\ lastTurn' = "transport_error"
  /\ inflight' = NoRequest
  /\ UNCHANGED <<loading, conversationContext, contextLog, input, turns, dateNow, cleared>>
  /\ UNCHANGED notChatVars

\* the catch block, and finally
RespondError ==
  /\ inflight.sent
  /\ messages' = setMessages(messages, inflight.thinkingId, "Sorry", "false")
  /\ lastTurn' = "transport_error"
  /\ loading' = FALSE
  /\ inflight' = NoRequest
  /\ UNCHANGED <<conversationContext, contextLog, input, turns, dateNow, cleared>>
  /\ UNCHANGED notChatVars

\* the Clear Context button, rendered while the context is not empty
ClearContext ==
  /\ Len(conversationContext) > 0
  /\ conversationContext' = <<>>
  /\ contextLog' = <<>>
  /\ lastTurn' = "cleared"
  /\ cleared' = TRUE
  /\ UNCHANGED <<loading, messages, inflight, input, turns, dateNow>>
  /\ UNCHANGED notChatVars

NextChat ==
  \/ \E str \in Inputs : setInput(str)
  \/ \E t \in {NoText, "", "Q1"}, dt \in Elapsed, dt2 \in Within :
        turns < MaxTurns /\ sendMessage(t, dt, dt2)
  \/ \E result \in Results : Respond(result)
  \/ RespondError
  \/ ClearContext

SpecChat == Init /\ [][NextChat]_vars

\* The end of a turn: axios.post settles, with a response or with an error.
ChatStep ==
  \/ \E result \in Results : Respond(result)
  \/ RespondError

\* A longer conversation with a person at the keyboard: a question is typed
\* or suggested and sent some milliseconds after the previous one.
TypingGap == 2

\* SpecChatFair: a question is sent in the millisecond of the previous one
\* or some milliseconds later.
FairElapsed == {0, TypingGap}

NextChatFair ==
  \/ \E str \in Inputs : setInput(str)
  \/ \E t \in {NoText, "Q1"}, dt \in FairElapsed :
        turns < MaxFairTurns /\ sendMessage(t, dt, 0)
  \/ \E result \in Results : Respond(result)
  \/ RespondError
  \/ ClearContext

SpecChatFair == Init /\ [][NextChatFair]_vars /\ WF_vars(ChatStep)

\* SpecChatTyped: a longer conversation with a person at the keyboard.
NextChatTyped ==
  \/ \E str \in Inputs : setInput(str)
  \/ \E t \in {NoText, "Q1"} : turns < MaxTypedTurns /\ sendMessage(t, TypingGap, 0)
  \/ \E result \in Results : Respond(result)
  \/ RespondError
  \/ ClearContext

SpecChatTyped == Init /\ [][NextChatTyped]_vars

\* ------------------------------------------------------------- the page
\* Home (page.tsx) with OAuth2Config, FabricConnection and
\* PowerBIMCPConnection. A component is mounted while its condition in the
\* JSX of Home holds; unmounting destroys its state, and a request of the
\* unmounted instance still in flight (orphan) runs its callbacks when the
\* response arrives.
Outcomes == {"success", "rejected", "error"}

\* {authConfigured && dataSourceType === 'sql' && (<FabricConnection .../>)}
FabricMounted(auth, dst) == auth /\ dst = "sql"
\* {authConfigured && dataSourceType === 'semantic_model' && (<PowerBIMCPConnection .../>)}
PowerBIMounted(auth, dst) == auth /\ dst = "semantic_model"

\* {(fabricConnected || semanticModelConnected) && ( ... )}
PanelRendered == fabricConnected \/ semanticModelConnected

\* {activeTab === 'chat' && (<EnhancedChatInterface .../>)}
ChatRendered == PanelRendered /\ activeTab = "chat"

\* EnhancedChatInterface across a render of Home: when its condition stops
\* holding the instance is unmounted and its state is gone, a question of it
\* still in flight is answered to an instance that no longer exists; the
\* instance mounted when the condition holds again starts from useState(...).
\* turns and dateNow are not state of the component. Stated after the
\* assignments of the handler, whose result it reads.
ChatMount ==
  IF ChatRendered /\ ~ChatRendered'
  THEN /\ loading' = FALSE
       /\ conversationContext' = <<>>
       /\ messages' = <<Message(1, "assistant", "Welcome", "unset")>>
       /\ inflight' = NoRequest
       /\ input' = ""
       /\ contextLog' = <<>>
       /\ lastTurn' = "none"
       /\ cleared' = FALSE
       /\ chatOrphans' = chatOrphans + (IF inflight.sent THEN 1 ELSE 0)
       /\ UNCHANGED <<turns, dateNow>>
  ELSE UNCHANGED <<chatVars, chatOrphans>>

\* state of a connection component across a change of its mount condition
Remounted(comp, fresh, was, is) ==
  IF was /\ ~is
  THEN [fresh EXCEPT !.orphan = comp.orphan + (IF comp.own THEN 1 ELSE 0)]
  ELSE comp

\* setAuthConfigured / setDataSourceType, with the mounting they cause;
\* PowerBIMCPConnection calls checkConnectionStatus when it is mounted.
Render(auth, dst) ==
  /\ authConfigured' = auth
  /\ dataSourceType' = dst
  /\ fabric' = Remounted(fabric, FreshFabric,
                         FabricMounted(authConfigured, dataSourceType),
                         FabricMounted(auth, dst))
  /\ powerbi' =
       LET was == PowerBIMounted(authConfigured, dataSourceType)
           is  == PowerBIMounted(auth, dst)
           p   == Remounted(powerbi, FreshPowerBI, was, is) IN
       IF ~was /\ is THEN [p EXCEPT !.statusOwn = TRUE]
       ELSE IF was /\ ~is
            THEN [p EXCEPT !.statusOrphan =
                            powerbi.statusOrphan + (IF powerbi.statusOwn THEN 1 ELSE 0)]
            ELSE p

\* handleConnectionChange(type, connected)
handleConnectionChange(type, connected) ==
  IF type = "sql"
  THEN /\ fabricConnected' = connected
       /\ IF connected
          THEN connectionType' = "sql" /\ semanticModelConnected' = FALSE
          ELSE UNCHANGED <<connectionType, semanticModelConnected>>
  ELSE /\ semanticModelConnected' = connected
       /\ IF connected
          THEN connectionType' = "semantic_model" /\ fabricConnected' = FALSE
          ELSE UNCHANGED <<connectionType, fabricConnected>>

connVars == <<fabricConnected, semanticModelConnected, connectionType>>

\* Home.checkConnectionStatus: the response of GET /api/connection/status
CheckConnectionStatus(sql, sem) ==
  /\ statusPending
  /\ statusPending' = FALSE
  /\ fabricConnected' = sql
  /\ semanticModelConnected' = sem
  /\ connectionType' = IF sql THEN "sql"
                       ELSE IF sem THEN "semantic_model" ELSE connectionType
  /\ UNCHANGED <<authConfigured, dataSourceType, activeTab, oauth, fabric, powerbi,
                 issued>>
  /\ ChatMount
  /\ UNCHANGED notHomeChatVars

\* ... and its catch branch
CheckConnectionStatusError ==
  /\ statusPending
  /\ statusPending' = FALSE
  /\ UNCHANGED <<authConfigured, dataSourceType, activeTab, oauth, fabric, powerbi,
                 issued, connVars>>
  /\ ChatMount
  /\ UNCHANGED notHomeChatVars

\* OAuth2Config.checkAuthStatus: the response of GET /api/auth/status
checkAuthStatus(configured) ==
  /\ oauth.statusPending
  /\ IF configured
     THEN /\ oauth' = [oauth EXCEPT !.statusPending = FALSE, !.authenticated = TRUE,
                                    !.showForm = FALSE]
          /\ Render(TRUE, dataSourceType)
     ELSE /\ oauth' = [oauth EXCEPT !.statusPending = FALSE]
          /\ UNCHANGED <<authConfigured, dataSourceType, fabric, powerbi>>
  /\ UNCHANGED <<activeTab, statusPending, issued, connVars>>
  /\ ChatMount
  /\ UNCHANGED notHomeChatVars

\* OAuth2Config.configureAuth, up to the await
configureAuth ==
  /\ ~oauth.authenticated /\ oauth.showForm /\ ~oauth.loading
  /\ oauth' = [oauth EXCEPT !.loading = TRUE, !.configurePending = TRUE]
  /\ UNCHANGED <<authConfigured, dataSourceType, activeTab, statusPending, fabric,
                 powerbi, issued, connVars>>
  /\ ChatMount
  /\ UNCHANGED notHomeChatVars

\* OAuth2Config.configureAuth, from the await on
configureAuthResponse(how) ==
  /\ oauth.configurePending
  /\ CASE how = "success" ->
            /\ oauth' = [oauth EXCEPT !.configurePending = FALSE, !.loading = FALSE,
                                      !.authenticated = TRUE, !.showForm = FALSE]
            /\ Render(TRUE, dataSourceType)
       [] how = "rejected" ->
            /\ oauth' = [oauth EXCEPT !.configurePending = FALSE, !.loading = FALSE]
            /\ UNCHANGED <<authConfigured, dataSourceType, fabric, powerbi>>
       [] how = "error" ->
            /\ oauth' = [oauth EXCEPT !.configurePending = FALSE, !.loading = FALSE]
            /\ Render(FALSE, dataSourceType)
  /\ UNCHANGED <<activeTab, statusPending, issued, connVars>>
  /\ ChatMount
  /\ UNCHANGED notHomeChatVars

\* OAuth2Config.resetAuth (the button is rendered while authenticated)
resetAuth ==
  /\ oauth.authenticated
  /\ oauth' = [oauth EXCEPT !.authenticated = FALSE, !.showForm = TRUE]
  /\ Render(FALSE, dataSourceType)
  /\ UNCHANGED <<activeTab, statusPending, issued, connVars>>
  /\ ChatMount
  /\ UNCHANGED notHomeChatVars

\* the radio buttons of Home
setDataSourceType(t) ==
  /\ authConfigured
  /\ t # dataSourceType
  /\ Render(authConfigured, t)
  /\ UNCHANGED <<activeTab, statusPending, oauth, issued, connVars>>
  /\ ChatMount
  /\ UNCHANGED notHomeChatVars

\* the tab buttons of Home
setActiveTab(tab) ==
  /\ PanelRendered
  /\ tab # activeTab
  /\ activeTab' = tab
  /\ UNCHANGED <<authConfigured, dataSourceType, statusPending, oauth, fabric,
                 powerbi, issued, connVars>>
  /\ ChatMount
  /\ UNCHANGED notHomeChatVars

\* FabricConnection.testConnection, up to the await
testConnection ==
  /\ FabricMounted(authConfigured, dataSourceType)
  /\ ~fabric.connected /\ fabric.showForm /\ ~fabric.loading
  /\ fabric' = [fabric EXCEPT !.loading = TRUE, !.own = TRUE, !.error = "",
                           !.ended = "none"]
  /\ issued' = [kind |-> "connect", auth |-> authConfigured]
  /\ UNCHANGED <<authConfigured, dataSourceType, activeTab, statusPending, oauth,
                 powerbi, connVars>>
  /\ ChatMount
  /\ UNCHANGED notHomeChatVars

\* FabricConnection.testConnection, from the await on; orphan = the response
\* to a request of an instance that has been unmounted since
testConnectionResponse(how, orphan) ==
  /\ IF orphan THEN fabric.orphan > 0 ELSE fabric.own
  /\ fabric' = IF orphan THEN [fabric EXCEPT !.orphan = @ - 1]
               ELSE IF how = "success"
                    THEN [fabric EXCEPT !.own = FALSE, !.loading = FALSE,
                                        !.connected = TRUE, !.showForm = FALSE,
                                        !.ended = how]
                    ELSE IF how = "error"
                    THEN [fabric EXCEPT !.own = FALSE, !.loading = FALSE,
                                        !.error = "Connection failed",
                                        !.ended = how]
                    ELSE [fabric EXCEPT !.own = FALSE, !.loading = FALSE,
                                        !.ended = how]
  /\ CASE how = "success"  -> handleConnectionChange("sql", TRUE)
       [] how = "rejected" -> UNCHANGED connVars
       [] how = "error"    -> handleConnectionChange("sql", FALSE)
  /\ UNCHANGED <<authConfigured, dataSourceType, activeTab, statusPending, oauth,
                 powerbi, issued>>
  /\ ChatMount
  /\ UNCHANGED notHomeChatVars

\* FabricConnection.disconnect
disconnect ==
  /\ FabricMounted(authConfigured, dataSourceType)
  /\ fabric.connected
  /\ fabric' = [fabric EXCEPT !.connected = FALSE, !.showForm = TRUE]
  /\ handleConnectionChange("sql", FALSE)
  /\ UNCHANGED <<authConfigured, dataSourceType, activeTab, statusPending, oauth,
                 powerbi, issued>>
  /\ ChatMount
  /\ UNCHANGED notHomeChatVars

\* PowerBIMCPConnection.checkConnectionStatus: the response of
\* GET /api/powerbi/status (a failed request changes nothing but the pending flag)
checkPowerBIStatus(connected, orphan) ==
  /\ IF orphan THEN powerbi.statusOrphan > 0 ELSE powerbi.statusOwn
  /\ powerbi' = IF orphan THEN [powerbi EXCEPT !.statusOrphan = @ - 1]
                ELSE IF connected
                     THEN [powerbi EXCEPT !.statusOwn = FALSE, !.connected = TRUE,
                                          !.showForm = FALSE]
                     ELSE [powerbi EXCEPT !.statusOwn = FALSE]
  /\ IF connected THEN handleConnectionChange("semantic_model", TRUE)
     ELSE UNCHANGED connVars
  /\ UNCHANGED <<authConfigured, dataSourceType, activeTab, statusPending, oauth,
                 fabric, issued>>
  /\ ChatMount
  /\ UNCHANGED notHomeChatVars

\* PowerBIMCPConnection.connectToPowerBI, up to the await
connectToPowerBI ==
  /\ PowerBIMounted(authConfigured, dataSourceType)
  /\ ~powerbi.connected /\ powerbi.showForm /\ ~powerbi.loading
  /\ powerbi' = [powerbi EXCEPT !.loading = TRUE, !.own = TRUE, !.error = "",
                            !.ended = "none"]
  /\ issued' = [kind |-> "connect", auth |-> authConfigured]
  /\ UNCHANGED <<authConfigured, dataSourceType, activeTab, statusPending, oauth,
                 fabric, connVars>>
  /\ ChatMount
  /\ UNCHANGED notHomeChatVars

\* PowerBIMCPConnection.connectToPowerBI, from the await on
connectToPowerBIResponse(how, orphan) ==
  /\ IF orphan THEN powerbi.orphan > 0 ELSE powerbi.own
  /\ powerbi' = IF orphan THEN [powerbi EXCEPT !.orphan = @ - 1]
                ELSE IF how = "success"
                     THEN [powerbi EXCEPT !.own = FALSE, !.loading = FALSE,
                                          !.connected = TRUE, !.showForm = FALSE,
                                          !.ended = how]
                     ELSE IF how = "error"
                     THEN [powerbi EXCEPT !.own = FALSE, !.loading = FALSE,
                                          !.error = "Connection failed",
                                          !.ended = how]
                     ELSE [powerbi EXCEPT !.own = FALSE, !.loading = FALSE,
                                          !.ended = how]
  /\ CASE how = "success"  -> handleConnectionChange("semantic_model", TRUE)
       [] how = "rejected" -> UNCHANGED connVars
       [] how = "error"    -> handleConnectionChange("semantic_model", FALSE)
  /\ UNCHANGED <<authConfigured, dataSourceType, activeTab, statusPending, oauth,
                 fabric, issued>>
  /\ ChatMount
  /\ UNCHANGED notHomeChatVars

\* PowerBIMCPConnection.disconnect
disconnectPowerBI ==
  /\ PowerBIMounted(authConfigured, dataSourceType)
  /\ powerbi.connected
  /\ powerbi' = [powerbi EXCEPT !.connected = FALSE, !.showForm = TRUE]
  /\ handleConnectionChange("semantic_model", FALSE)
  /\ UNCHANGED <<authConfigured, dataSourceType, activeTab, statusPending, oauth,
                 fabric, issued>>
  /\ ChatMount
  /\ UNCHANGED notHomeChatVars

\* A question is typed and sent from the chat interface rendered by Home:
\* sendMessage of the mounted instance.
AskQuestion ==
  /\ ChatRendered
  /\ Send("Q1", TypingGap, 0)
  /\ issued' = [kind |-> "chat", auth |-> authConfigured]
  /\ UNCHANGED <<authConfigured, dataSourceType, activeTab, statusPending, oauth,
                 fabric, powerbi, connVars, chatOrphans>>
  /\ UNCHANGED notHomeChatVars

\* The response to a question of an unmounted chat interface arrives: the
\* setState calls of sendMessage act on an instance that is gone and change
\* nothing that is rendered.
RespondUnmounted ==
  /\ chatOrphans > 0
  /\ chatOrphans' = chatOrphans - 1
  /\ UNCHANGED <<authConfigured, dataSourceType, activeTab, statusPending, oauth,
                 fabric, powerbi, issued, connVars>>
  /\ UNCHANGED notHomeVars

\* a mount of PowerBIMCPConnection issues a status request
MountsPowerBI(auth, dst) ==
  ~PowerBIMounted(authConfigured, dataSourceType) /\ PowerBIMounted(auth, dst)

\* the answers of the chat endpoint explored by SpecHome
HomeResults ==
  { [success |-> TRUE,  query |-> "SELECT_A", query_language |-> "DAX", answer |-> "Answer"],
    [success |-> FALSE, query |-> "SELECT_A", query_language |-> "DAX", answer |-> "Failed"] }

NextHome ==
  \/ CheckConnectionStatusError
  \/ \E sql \in BOOLEAN, sem \in BOOLEAN : CheckConnectionStatus(sql, sem)
  \/ \E configured \in BOOLEAN :
        /\ MountsPowerBI(configured, dataSourceType) => powerbi.statusOrphan < MaxOrphans
        /\ checkAuthStatus(configured)
  \/ configureAuth
  \/ \E how \in Outcomes :
        /\ MountsPowerBI(how = "success", dataSourceType) => powerbi.statusOrphan < MaxOrphans
        /\ configureAuthResponse(how)
  \/ resetAuth
  \/ \E t \in {"sql", "semantic_model"} :
        /\ MountsPowerBI(authConfigured, t) => powerbi.statusOrphan < MaxOrphans
        /\ setDataSourceType(t)
  \/ \E tab \in {"chat", "schema"} : setActiveTab(tab)
  \/ fabric.orphan < MaxOrphans /\ testConnection
  \/ \E how \in Outcomes, orphan \in BOOLEAN : testConnectionResponse(how, orphan)
  \/ disconnect
  \/ \E connected \in BOOLEAN, orphan \in BOOLEAN : checkPowerBIStatus(connected, orphan)
  \/ powerbi.orphan < MaxOrphans /\ connectToPowerBI
  \/ \E how \in Outcomes, orphan \in BOOLEAN : connectToPowerBIResponse(how, orphan)
  \/ disconnectPowerBI
  \/ turns < MaxHomeTurns /\ AskQuestion
  \/ \E result \in HomeResults : Respond(result)
  \/ RespondError
  \/ RespondUnmounted

SpecHome == Init /\ [][NextHome]_vars

\* ------------------------------------------------------------- the caches
\* The caches of the service: the similarity cache (keyed by the question
\* alone, as CacheManager.query_cache) and the two schema slots of
\* EnhancedMultiAgentService. The backend holds one connection per backend
\* kind, both may be open at once (GET /api/connection/status reports the
\* two separately), and every chat request names the kind it is for
\* (connection_type). A schema is modelled by the identity of the connection
\* it was discovered on.
schema_slot(kind) == IF kind = "sql" THEN sql_schema_cache ELSE model_info_cache

RECURSIVE SimilarIndex(_, _, _)
\* index of the entry get_similar_query returns, 0 when it returns None
SimilarIndex(cache, q, i) ==
  IF i > Len(cache) THEN 0
  ELSE IF calculate_similarity(q, cache[i].question) > similarity_threshold
       THEN i
       ELSE SimilarIndex(cache, q, i + 1)

\* A connection is made (POST /api/fabric/connect, /api/powerbi/connect) and
\* replaces the connection of its kind; the other kind stays connected. The
\* schema slot of the kind is invalidated, and the similarity cache, whose
\* entries carry no identity, is emptied.
Connect(c) ==
  /\ connection' = [connection EXCEPT ![c[1]] = c]
  /\ query_similarity_cache' = <<>>
  /\ sql_schema_cache' = IF c[1] = "sql" THEN NoSchema ELSE sql_schema_cache
  /\ model_info_cache' = IF c[1] = "sql" THEN model_info_cache ELSE NoSchema
  /\ UNCHANGED <<stored, clock, lastStore, served, schemaServed>>
  /\ UNCHANGED notCacheVars

\* QuerySimilarityCache.store(question, query) by a run of a request with
\* connection_type kind
CacheStore(q, qry, kind) ==
  /\ connection[kind] # NoConnection
  /\ clock' = clock + 1
  /\ query_similarity_cache' = store(query_similarity_cache, q, qry)
  /\ stored' = [stored EXCEPT ![q] = [under |-> connection[kind], at |-> clock + 1]]
  /\ lastStore' = [question |-> q, query |-> qry]
  /\ UNCHANGED <<connection, sql_schema_cache, model_info_cache, served, schemaServed>>
  /\ UNCHANGED notCacheVars

\* CacheManager.get_similar_query(question) by a run of a request with
\* connection_type kind: the question is all the lookup is given
CacheLookup(q, kind) ==
  /\ connection[kind] # NoConnection
  /\ LET i == SimilarIndex(query_similarity_cache, q, 1) IN
     served' = IF i = 0
               THEN [hit |-> FALSE, under |-> connection[kind], by |-> NoConnection,
                     query |-> get_similar_query(query_similarity_cache, q)]
               ELSE [hit |-> TRUE, under |-> connection[kind],
                     by |-> stored[query_similarity_cache[i].question].under,
                     query |-> get_similar_query(query_similarity_cache, q)]
  /\ UNCHANGED <<connection, query_similarity_cache, sql_schema_cache,
                 model_info_cache, stored, clock, lastStore, schemaServed>>
  /\ UNCHANGED notCacheVars

\* SchemaCache.get by a run of a request with connection_type kind: the
\* cached schema of the backend kind, discovered first when the slot is empty.
SchemaGet(kind) ==
  /\ connection[kind] # NoConnection
  /\ LET schema == IF schema_slot(kind) = NoSchema THEN connection[kind]
                   ELSE schema_slot(kind) IN
     /\ sql_schema_cache' = IF kind = "sql" THEN schema ELSE sql_schema_cache
     /\ model_info_cache' = IF kind = "sql" THEN model_info_cache ELSE schema
     /\ schemaServed' = [under |-> connection[kind], schema |-> schema]
  /\ UNCHANGED <<connection, query_similarity_cache, stored, clock, lastStore, served>>
  /\ UNCHANGED notCacheVars

\* SpecCache: the similarity cache under connects, stores and lookups.
NextCache ==
  \/ \E c \in Identities : Connect(c)
  \/ \E q \in Questions, qry \in Queries, kind \in Kinds :
        clock < MaxStores /\ CacheStore(q, qry, kind)
  \/ \E q \in Questions, kind \in Kinds : CacheLookup(q, kind)

SpecCache == Init /\ [][NextCache]_vars

\* SpecIdentity: the similarity cache and the schema slots under requests
\* for both backend kinds.
NextIdentity ==
  \/ \E c \in Identities : Connect(c)
  \/ \E q \in Questions, qry \in Queries, kind \in Kinds :
        clock < MaxIdentityStores /\ CacheStore(q, qry, kind)
  \/ \E q \in Questions, kind \in Kinds : CacheLookup(q, kind)
  \/ \E kind \in Kinds : SchemaGet(kind)

SpecIdentity == Init /\ [][NextIdentity]_vars

\* ------------------------------------------------------------- SchemaCache
\* SchemaCache.get under concurrent callers. Per connection identity the
\* cache is cold, fetching (a discovery pass is in flight) or warm; epoch
\* counts the cold periods of the identity, passes the discovery passes
\* issued in the current one.
Callers == 1..MaxCallers
Schemas == {"S1", "S2"}
SchemaKeys == {<<"sql", "ep1", "db1">>, <<"semantic_model", "ep2", "ds1">>}

\* variant: a caller that finds a discovery in flight issues its own
IssuesDiscovery_each(entry) == entry.state \in {"cold", "fetching"}

\* a get issues a discovery pass only when the cache is cold and no pass is
\* in flight
IssuesDiscovery(entry) == entry.state = "cold"

\* SchemaCache.get(id) by caller c, up to the point where it returns or waits
SchemaCacheGet(c, id) ==
  /\ callers[c].at = "idle"
  /\ LET entry == schemaCache[id] IN
     IF entry.state = "warm"
     THEN /\ callers' = [callers EXCEPT ![c] = [at |-> "done", id |-> id,
                           schema |-> entry.schema, epoch |-> entry.epoch,
                           waited |-> FALSE]]
          /\ UNCHANGED schemaCache
     ELSE /\ callers' = [callers EXCEPT ![c] = [at |-> "waiting", id |-> id,
                           schema |-> NoQuery, epoch |-> entry.epoch,
                           waited |-> TRUE]]
          /\ schemaCache' =
               IF IssuesDiscovery(entry)
               THEN [schemaCache EXCEPT ![id] =
                       [entry EXCEPT !.state = "fetching",
                                     !.pending = entry.pending + 1,
                                     !.passes = entry.passes + 1]]
               ELSE schemaCache
  /\ UNCHANGED notSchemaVars

\* A discovery pass of identity id returns schema s: it is stored, and every
\* caller waiting on the identity receives it.
DiscoveryReturns(id, s) ==
  /\ schemaCache[id].pending > 0
  /\ schemaCache' = [schemaCache EXCEPT ![id] =
                       [schemaCache[id] EXCEPT !.state = "warm", !.schema = s,
                                               !.pending = schemaCache[id].pending - 1]]
  /\ callers' = [c \in Callers |->
                   IF callers[c].at = "waiting" /\ callers[c].id = id
                   THEN [callers[c] EXCEPT !.at = "done", !.schema = s]
                   ELSE callers[c]]
  /\ UNCHANGED notSchemaVars

\* The caller uses the schema and may call get again.
CallerReturns(c) ==
  /\ callers[c].at = "done"
  /\ callers' = [callers EXCEPT ![c] = IdleCaller]
  /\ UNCHANGED schemaCache
  /\ UNCHANGED notSchemaVars

\* TTL expiry or invalidate(id): the next get discovers again.
Invalidate(id) ==
  /\ schemaCache[id].state = "warm"
  /\ schemaCache[id].pending = 0
  /\ schemaCache[id].epoch < MaxEpochs
  /\ schemaCache' = [schemaCache EXCEPT ![id] =
                       [state |-> "cold", schema |-> NoQuery, pending |-> 0,
                        passes |-> 0, epoch |-> schemaCache[id].epoch + 1]]
  /\ UNCHANGED callers
  /\ UNCHANGED notSchemaVars

NextSchema ==
  \/ \E c \in Callers, id \in SchemaKeys : SchemaCacheGet(c, id)
  \/ \E id \in SchemaKeys, s \in Schemas : DiscoveryReturns(id, s)
  \/ \E c \in Callers : CallerReturns(c)
  \/ \E id \in SchemaKeys : Invalidate(id)

SpecSchema == Init /\ [][NextSchema]_vars

\* ------------------------------------------------------------- sessions
\* Two chat sessions: two mounted instances of EnhancedChatInterface (two
\* browser tabs), each with its own useState, talking to one backend whose
\* ContextManager keeps one conversation_history. A request carries the
\* question, the connection type and the context history, and nothing that
\* names the session.
SessionIds == {"A", "B"}
AskedBy(s) == IF s = "A" THEN {"QA"} ELSE {"QB"}
SessionOf(q) == IF q \in AskedBy("A") THEN "A" ELSE "B"

\* the answers of POST /api/chat/unified: with a query and rows, without a
\* query, a failure; data is the number of rows of the result
SessionResults ==
  { [success |-> TRUE,  query |-> "SELECT_A", query_language |-> "DAX",
     answer |-> "Answer", data |-> 3],
    [success |-> TRUE,  query |-> "", query_language |-> "DAX",
     answer |-> "Answer", data |-> 0],
    [success |-> FALSE, query |-> "SELECT_A", query_language |-> "DAX",
     answer |-> "Failed", data |-> 0] }

\* ContextManager.add_context: row_count is len(results.get("data", [])); the
\* timestamp is left out
add_context(history, q, qry, results) ==
  Append(history, [question |-> q, query |-> qry, row_count |-> results.data])

\* sendMessage of the instance of session s, up to the await
SessionSend(s, q) ==
  /\ q \in AskedBy(s)
  /\ sessions[s].turns < MaxSessionTurns
  /\ ~sessions[s].loading
  /\ sessions' = [sessions EXCEPT ![s] =
                    [@ EXCEPT !.loading = TRUE, !.turns = @ + 1,
                              !.response = NoResponse,
                              !.inflight = [sent |-> TRUE, question |-> q,
                                            context_history |-> sessions[s].conversationContext,
                                            thinkingId |-> 0]]]
  /\ UNCHANGED conversation_history
  /\ UNCHANGED notSessionVars

\* The backend handles the request of session s: a successful orchestration
\* is added to the history of ContextManager, and the answer is on its way
\* to the client.
chat_unified(s, result) ==
  /\ sessions[s].inflight.sent
  /\ sessions[s].response = NoResponse
  /\ conversation_history' =
        IF result.success
        THEN add_context(conversation_history, sessions[s].inflight.question,
                         result.query, result)
        ELSE conversation_history
  /\ sessions' = [sessions EXCEPT ![s] = [@ EXCEPT !.response = result]]
  /\ UNCHANGED notSessionVars

\* the answer arrives: the try block of sendMessage after the await, and
\* finally, in the instance of s
SessionRespond(s) ==
  /\ sessions[s].inflight.sent
  /\ sessions[s].response # NoResponse
  /\ LET result == sessions[s].response IN
     sessions' = [sessions EXCEPT ![s] =
                    [@ EXCEPT !.loading = FALSE, !.inflight = NoRequest,
                              !.response = NoResponse,
                              !.conversationContext =
                                 IF AppendsContext(result)
                                 THEN setConversationContext(@,
                                         ContextEntry(sessions[s].inflight.question, result))
                                 ELSE @]]
  /\ UNCHANGED conversation_history
  /\ UNCHANGED notSessionVars

\* the request fails, before or after the backend has handled it: the catch
\* block of sendMessage, and finally, in the instance of s
SessionError(s) ==
  /\ sessions[s].inflight.sent
  /\ sessions' = [sessions EXCEPT ![s] =
                    [@ EXCEPT !.loading = FALSE, !.inflight = NoRequest,
                              !.response = NoResponse]]
  /\ UNCHANGED conversation_history
  /\ UNCHANGED notSessionVars

\* the Clear Context button of the instance of s
SessionClear(s) ==
  /\ Len(sessions[s].conversationContext) > 0
  /\ sessions' = [sessions EXCEPT ![s] = [@ EXCEPT !.conversationContext = <<>>]]
  /\ UNCHANGED conversation_history
  /\ UNCHANGED notSessionVars

NextSessions ==
  \/ \E s \in SessionIds : SessionError(s)
  \/ \E s \in SessionIds, q \in {"QA", "QB"} : SessionSend(s, q)
  \/ \E s \in SessionIds, result \in SessionResults : chat_unified(s, result)
  \/ \E s \in SessionIds : SessionRespond(s)
  \/ \E s \in SessionIds : SessionClear(s)

SpecSessions == Init /\ [][NextSessions]_vars

\* ---------------------------------------------- the monitoring dashboard
\* variant: slice(-20)
KeepPoints_20(series, point) == Append(SliceLast(series, HistoryKeep + 1), point)

\* [...prev.cacheHitRate.slice(-19), { timestamp, value, label }]
KeepPoints(series, point) == Append(SliceLast(series, HistoryKeep), point)

\* setInterval(fetchMonitoringData, 10000): a poll is issued, whether or not
\* the previous one has been answered
Poll ==
  /\ polls < MaxPolls
  /\ polls' = polls + 1
  /\ pollsInFlight' = pollsInFlight + 1
  /\ UNCHANGED <<historicalData, isConnected, monitorError, now, lastPoll>>
  /\ UNCHANGED notMonitorVars

\* what new Date() may differ by from its last reading: the wall clock has
\* advanced, stands in the same millisecond (two answers handled one after
\* the other), or has been set back
ClockSteps == {-1, 0, 1}

\* fetchMonitoringData after the await: response.data.success. The three
\* points are stamped with new Date().toISOString(), read dt after the last
\* reading.
PollSucceeds(r, dt) ==
  LET timestamp == now + dt IN
  /\ pollsInFlight > 0
  /\ pollsInFlight' = pollsInFlight - 1
  /\ now' = timestamp
  /\ isConnected' = TRUE
  /\ monitorError' = "null"
  /\ historicalData' =
        [cacheHitRate |-> KeepPoints(historicalData.cacheHitRate,
                                     Point(timestamp, r.hit_rate_percentage)),
         systemHealth |-> KeepPoints(historicalData.systemHealth,
                                     Point(timestamp, r.score)),
         performance  |-> KeepPoints(historicalData.performance,
                                     Point(timestamp, r.cpu_usage_percent))]
  /\ lastPoll' = "ok"
  /\ UNCHANGED polls
  /\ UNCHANGED notMonitorVars

\* the catch block: the request failed, or its answer had success = false;
\* the clock is not read
PollFails(message) ==
  /\ pollsInFlight > 0
  /\ pollsInFlight' = pollsInFlight - 1
  /\ isConnected' = FALSE
  /\ monitorError' = message
  /\ lastPoll' = "failed"
  /\ UNCHANGED <<historicalData, polls, now>>
  /\ UNCHANGED notMonitorVars

InitMonitor ==
  /\ RunInit /\ ChatInit /\ HomeInit /\ CacheInit /\ SchemaInit /\ SessionInit
  /\ ChartInit
  /\ (MonitorInit \/ MonitorWarm)

NextMonitor ==
  \/ Poll
  \/ \E r \in MonitorResponses, dt \in ClockSteps : PollSucceeds(r, dt)
  \/ \E message \in {"Network Error", "Failed to fetch monitoring data"} :
        PollFails(message)

SpecMonitor == InitMonitor /\ [][NextMonitor]_vars

\* ------------------------------------------------------------- the chart
\* the values of the preferredType prop: its declared type, and a string
\* outside of it (the prop is not checked at run time)
PreferredTypes == {"auto", "table"} \cup ChartTypes

\* the values chartAnalysis assigns to recommendedType
RecommendedTypes == {"bar", "line", "scatter", "pie"}

\* selectedType || (preferredType !== 'auto' ? preferredType
\*                                            : chartAnalysis.recommendedType)
currentType(c) ==
  IF c.selectedType # "null" THEN c.selectedType
  ELSE IF c.preferredType # "auto" THEN c.preferredType
  ELSE c.recommendedType

\* onClick of a chart type button; the component renders again. The buttons
\* are there once a render has completed: a render that ended in the
\* RangeError has put nothing on the page.
setSelectedType(t) ==
  /\ chart.rendered \notin {"none", "RangeError"}
  /\ chart' = [chart EXCEPT !.selectedType = t, !.depth = 0, !.rendered = "none"]
  /\ UNCHANGED notChartVars

\* One call frame of renderChart. The default branch calls renderChart again;
\* when the stack is full the engine throws a RangeError.
renderChart ==
  /\ chart.rendered = "none"
  /\ chart' =
       IF chart.rows = 0
       THEN [chart EXCEPT !.rendered = "no data"]
       ELSE IF currentType(chart) \in ChartTypes
       THEN [chart EXCEPT !.rendered = currentType(chart)]
       ELSE IF chart.depth < MaxStack
       THEN [chart EXCEPT !.depth = @ + 1]
       ELSE [chart EXCEPT !.rendered = "RangeError"]
  /\ UNCHANGED notChartVars

InitChart ==
  /\ RunInit /\ ChatInit /\ HomeInit /\ CacheInit /\ SchemaInit /\ SessionInit
  /\ MonitorInit
  /\ chart \in [selectedType : {"null"}, preferredType : PreferredTypes,
                recommendedType : RecommendedTypes, rows : 0..2,
                depth : {0}, rendered : {"none"}]

NextChart ==
  \/ \E t \in ChartTypes : setSelectedType(t)
  \/ renderChart

SpecChart == InitChart /\ [][NextChart]_vars

\* ===================================================================
\* Properties of the orchestration run (specification Spec)
\* ===================================================================
Last(s) == s[Len(s)]

\* every execution of the run so far failed with a kind of K
AllExecutionsFailed(K) ==
  /\ Len(attempts) > 0
  /\ \A i \in 1..Len(attempts) : ~attempts[i].success /\ attempts[i].error \in K
  /\ lastError \in K

\* every query executed so far was a query text, and no completion raised
CompletionsReturned ==
  /\ \A i \in 1..Len(attempts) : attempts[i].query \in Queries
  /\ outcome # "CompletionError"

\* C1 (as claimed): a run whose executions all fail with a kind eligible for
\* correction, whose repairs all return a query different from the failed
\* one, whose completions all return a query and whose deadline does not
\* elapse makes exactly max_attempts executions and returns DONE(exhausted).
C1_BoundedAttempts ==
  (pc = "DONE" /\ ~expired /\ ~noopRepair /\ CompletionsReturned
     /\ AllExecutionsFailed(Eligible))
    => (nExec = max_attempts /\ outcome = "exhausted")

\* C2: in every state of every run, a run that started while the similarity
\* cache held a query for its question included, the number of executions, and
\* with it the number of attempts made, is at most max_attempts.
C2_AttemptBudget ==
  nExec <= max_attempts /\ Len(attempts) <= max_attempts

\* a run that started from a similarity-cache hit has used the whole budget
C2_Witness ==
  /\ cachedAtStart # None
  /\ pc = "DONE" /\ nExec = max_attempts /\ Len(attempts) = max_attempts /\ nFix = 2

\* C3 (as claimed): a run that starts while the similarity cache holds a
\* query for a similar question executes that cached query first, without a
\* generation call before it, and reports the row count of that execution.
C3_FreshExecution ==
  /\ (cachedAtStart # None /\ pc = "EXECUTING" /\ nExec = 0)
        => (query = cachedAtStart /\ nGen = 0)
  /\ (cachedAtStart # None /\ pc = "DONE" /\ outcome = "success")
        => (attempts[1].query = cachedAtStart /\ row_count = Last(attempts).row_count)

\* C4 (as claimed): once a repair has returned the failed query unchanged the
\* run is over, and it has made fewer than max_attempts executions.
C4_NoopRepairStops ==
  noopRepair => (pc = "DONE" /\ nExec < max_attempts)

\* C7 (as claimed, for a first call that succeeded and so filled the
\* similarity cache): two consecutive runs for the same question within the
\* TTLs issue together at most one generation call and at most one schema
\* discovery.
C7_OneGenerationOneDiscovery ==
  (prev.same /\ prev.ok)
    => (prev.nGen + nGen <= 1 /\ prev.nDiscover + nDiscover <= 1)

\* C8 (as claimed): once the deadline has elapsed a run under way issues no
\* further completion or execution call and ends at once in DONE(exhausted);
\* with a deadline of 0 no call is issued at all.
C8_Deadline ==
  [][ (expired /\ pc \notin {"IDLE", "DONE"})
        => /\ nExec' = nExec /\ nGen' = nGen /\ nFix' = nFix /\ nSynth' = nSynth
           /\ pc' = "DONE"
           /\ (pc # "SYNTHESIZING" => outcome' = "exhausted")
    ]_vars

\* C9 (as claimed): a generation that yields no query (empty text, or the
\* completion call raises) ends the run in DONE(exhausted); the empty text is
\* never handed to the executor and no further completion call is made.
C9_GenerationFailure ==
  /\ (pc = "EXECUTING" => query \in Queries)
  /\ ((pc = "DONE" /\ nGen = 1 /\ nExec = 0) => outcome = "exhausted")

\* C10 (as claimed): the corrector is never about to be called on a connection
\* or permission error, and such an error is the last execution of its run.
C10_EnvironmentalStops ==
  /\ (pc = "CORRECTING" => lastError \notin Environmental)
  /\ \A i \in 1..Len(attempts) :
       (attempts[i].error \in Environmental) => i = Len(attempts)

\* C10 (amended): errors of kind connection or permission are corrected like
\* any other. The corrector is called after every failed execution, whatever
\* its kind, but the last of the budget; a run whose executions all fail ends
\* after max_attempts executions and max_attempts - 1 corrections, and ends
\* earlier only when a completion call raises, which it does after a
\* corrector call for each execution made.
C10_AllKindsCorrected ==
  /\ (pc = "CORRECTING" => (~Last(attempts).success /\ nFix = nExec - 1))
  /\ (pc = "DONE" /\ AllExecutionsFailed(ErrorKinds))
       => IF outcome = "CompletionError"
          THEN nExec < max_attempts /\ nFix = nExec
          ELSE nExec = max_attempts /\ nFix = max_attempts - 1

C10_Witness ==
  /\ pc = "DONE" /\ AllExecutionsFailed(Environmental)
  /\ nExec = max_attempts /\ nFix = max_attempts - 1
  /\ attempts[1].error = "connection" /\ attempts[2].error = "permission"

\* C11 (as claimed, specification SpecFair): every run that has started
\* reaches DONE; in DONE its outcome is exactly one of success and exhausted
\* (success with an answer, exhausted without); and the result is produced
\* once: in DONE nothing of it changes until a new run starts.
C11_Terminates ==
  /\ (pc \notin {"IDLE", "DONE"}) ~> (pc = "DONE")
  /\ [](pc = "DONE" => /\ outcome \in {"success", "exhausted"}
                       /\ (outcome = "success") = (answer # "none"))
  /\ [](pc # "DONE" => outcome = "none")
  /\ [][ pc = "DONE"
          => \/ pc' = "GENERATING"
             \/ <<pc, outcome, answer, attempts, row_count, query>>'
                  = <<pc, outcome, answer, attempts, row_count, query>>
     ]_vars

\* C12 (as claimed): a run whose last execution failed in the last iteration
\* returns DONE(exhausted): success = false, no answer text, no rows, and the
\* attempts of the run, one per execution, none of them successful.
C12_ExhaustedResult ==
  (pc = "DONE" /\ nExec = max_attempts /\ ~Last(attempts).success)
    => /\ outcome = "exhausted"
       /\ answer = "none" /\ row_count = 0
       /\ Len(attempts) = nExec
       /\ \A i \in 1..Len(attempts) : ~attempts[i].success

\* C13: whatever the synthesizer completion does (answer, failure), the step
\* after a successful execution ends the run in DONE(success) and keeps the
\* final query, the attempts and the row count of the successful execution;
\* the result of a successful run always carries an answer, the synthesized
\* one or the templated fallback.
C13_SynthesisFallback ==
  /\ [][ (pc = "SYNTHESIZING" /\ (pc' # pc \/ nSynth' # nSynth))
          => /\ pc' = "DONE" /\ outcome' = "success"
             /\ query' = query /\ attempts' = attempts /\ row_count' = row_count
             /\ answer' \in {"synthesized", "templated"}
     ]_vars
  /\ [](pc = "DONE" /\ outcome = "success"
          => /\ answer \in {"synthesized", "templated"}
             /\ Last(attempts).success
             /\ Last(attempts).query = query
             /\ Last(attempts).row_count = row_count)

\* the synthesizer was called and the answer is the fallback
C13_Witness ==
  /\ pc = "DONE" /\ outcome = "success" /\ answer = "templated"
  /\ nSynth = 1
  /\ row_count = 2 /\ nFix = 1 /\ query = "SELECT_B"

\* the entry a run stores for its question
StoredEntry(cache, q) == CHOOSE e \in {cache[i] : i \in 1..Len(cache)} : e.question = q

\* C17 (as claimed): the similarity cache is written during a run only by the
\* step that reaches DONE(success); what it stores for the question is the
\* query of the final, successful attempt, which is the corrected query when
\* a correction preceded it; a run that ends otherwise leaves the cache
\* unchanged.
C17_StoreOnSuccess ==
  [][ (query_cache' # query_cache /\ pc \notin {"IDLE", "DONE"})
          => /\ outcome' = "success" /\ outcome = "none"
             /\ Last(attempts).success
             /\ HasKey(query_cache', question)
             /\ StoredEntry(query_cache', question).query = Last(attempts).query
             /\ (pendingRepair # NoQuery
                   => StoredEntry(query_cache', question).query = pendingRepair)
    ]_vars

\* C20 (as claimed): the execution that follows a non-degenerate repair (the
\* corrector returned a query other than the failed one) runs exactly the
\* query the corrector returned; and the corrector is called with the query
\* text and the error text of the attempt that has just failed.
C20_RepairedQueryExecuted ==
  /\ [][ (nExec' = nExec + 1 /\ pendingRepair # NoQuery
           /\ pendingRepair # Last(attempts).query)
          => Last(attempts').query = pendingRepair
     ]_vars
  /\ [](pc = "CORRECTING"
          => /\ query = Last(attempts).query
             /\ lastError = Last(attempts).error)

\* C21: the attempts of a run are totally ordered and never overlap. While an
\* execution is in flight every earlier execution has failed and is recorded,
\* and every earlier repair has returned; while a repair is in flight the
\* attempt it repairs is the last one and no later execution has started;
\* every execution adds one attempt.
C21_AttemptsOrdered ==
  /\ [](pc = "EXECUTING" =>
          /\ Len(attempts) = nExec
          /\ nFix = nExec
          /\ attempt = nExec
          /\ \A i \in 1..Len(attempts) : ~attempts[i].success)
  /\ [](pc = "CORRECTING" =>
          /\ Len(attempts) = nExec
          /\ nExec = nFix + 1
          /\ attempt = nFix
          /\ ~Last(attempts).success)
  /\ [][nExec' > nExec =>
          /\ pc = "EXECUTING"
          /\ nExec' = nExec + 1
          /\ Len(attempts') = Len(attempts) + 1
          /\ SubSeq(attempts', 1, Len(attempts)) = attempts]_vars

\* the third execution of a run is in flight
C21_Witness ==
  pc = "EXECUTING" /\ Len(attempts) = 2 /\ nFix = 2

\* C22: in the result of a run at most one attempt is successful and it is the
\* last one; the result is a success exactly when the last attempt is; a
\* successful run with one correction has two attempts, the first failed
\* and the second successful.
C22_OneSuccessLast ==
  pc = "DONE" =>
    /\ \A i \in 1..Len(attempts) : attempts[i].success => i = Len(attempts)
    /\ (outcome = "success") <=> (attempts # <<>> /\ Last(attempts).success)
    /\ (outcome = "success" /\ nFix = 1) =>
          /\ Len(attempts) = 2
          /\ ~attempts[1].success
          /\ attempts[2].success

\* a run has returned a success after one correction
C22_Witness ==
  pc = "DONE" /\ outcome = "success" /\ nFix = 1 /\ Len(attempts) = 2

\* ===================================================================
\* Properties of the chat client (specification SpecChat)
\* ===================================================================
\* capacity of the conversation context: slice(-2) plus the new entry
ContextCapacity == ContextKeep + 1

TurnEnds == inflight.sent /\ ~inflight'.sent

\* C6: the conversation context changes only by Clear Context or by the end of
\* a turn whose result has success = true and a query; the end of any other
\* turn (success = false, transport error, no query) leaves it unchanged.
C6_AppendOnlyOnSuccess ==
  [][ /\ (conversationContext' # conversationContext)
          => \/ conversationContext' = <<>>
             \/ (TurnEnds /\ lastTurn' = "success"
                 /\ Len(conversationContext') >= 1
                 /\ Last(conversationContext')[2] = inflight.question)
      /\ (TurnEnds /\ lastTurn' # "success")
          => conversationContext' = conversationContext
    ]_vars

C6_Witness ==
  /\ lastTurn \in {"failed", "transport_error"}
  /\ Len(conversationContext) = 2
  /\ conversationContext = contextLog
  /\ \E i \in 1..Len(messages) : messages[i].success = "false"

\* the step that sends a question
TurnStarts == ~inflight.sent /\ inflight'.sent

\* C23 (as claimed): Clear Context leaves the conversation context empty, and
\* the next question sent after it carries an empty context_history, also
\* when a request was in flight at the clear.
C23_ClearEmpties ==
  [][ /\ (cleared' /\ ~cleared) => conversationContext' = <<>>
      /\ (TurnStarts /\ cleared) => inflight'.context_history = <<>>
    ]_vars

\* the placeholder message of the request in flight
IsPlaceholder(m) == m.id = inflight.thinkingId

\* C24: at most one request is in flight: a question is sent only while no
\* request is in flight and loading is false, and it is not blank; loading
\* is true exactly while a request is in flight.
C24_OneRequestInFlight ==
  /\ [](loading <=> inflight.sent)
  /\ [][turns' > turns =>
          /\ ~loading /\ ~inflight.sent
          /\ inflight'.sent
          /\ Trim(inflight'.question) # ""]_vars

\* a request is in flight and the next question is typed already
C24_Witness ==
  loading /\ inflight.sent /\ Trim(input) # "" /\ turns = 1

\* C25: every request sent completes its turn: loading returns to false, and
\* at the end of the turn the placeholder of the request holds the answer, or
\* the error text with success = false.
C25_TurnCompletes ==
  /\ (inflight.sent ~> (~inflight.sent /\ ~loading))
  /\ [][TurnEnds =>
          /\ ~loading'
          /\ \E i \in 1..Len(messages') :
                /\ IsPlaceholder(messages'[i])
                /\ messages'[i].text # "Analyzing"
                /\ \/ messages'[i].text = "Sorry" /\ messages'[i].success = "false"
                   \/ /\ messages'[i].text \in {"Answer", "Failed", "Analysis completed"}
                      /\ messages'[i].success \in {"true", "false"}]_vars

\* one turn ended with an error and the next one with an answer
C25_Witness ==
  /\ ~loading /\ turns = 2 /\ lastTurn = "success"
  /\ messages[3].text = "Sorry" /\ messages[3].success = "false"
  /\ messages[5].text = "Answer" /\ messages[5].success = "true"

\* C26 (as claimed): the end of a turn changes only the placeholder of its request: the
\* list keeps its length, exactly one message is the placeholder, and every
\* other message is left as it was.
C26_OnlyPlaceholderChanges ==
  [][TurnEnds =>
       /\ Len(messages') = Len(messages)
       /\ Cardinality({i \in 1..Len(messages) : IsPlaceholder(messages[i])}) = 1
       /\ \A i \in 1..Len(messages) :
             IF IsPlaceholder(messages[i])
             THEN messages'[i].id = messages[i].id /\ messages'[i].sender = "assistant"
             ELSE messages'[i] = messages[i]]_vars

\* ===================================================================
\* Properties of the page (specification SpecHome)
\* ===================================================================
\* C19 (as claimed): every connect request and every chat question was issued
\* while authConfigured was true, and the chat interface is rendered only
\* while authConfigured is true.
C19_AuthRequired ==
  /\ (issued.kind \in {"connect", "chat"} => issued.auth)
  /\ (ChatRendered => authConfigured)

\* C27 (as claimed): whenever the chat panel is rendered, connectionType is
\* not null and names a data source whose connected flag is true.
C27_ConnectionTypeConnected ==
  PanelRendered =>
    /\ connectionType # "null"
    /\ connectionType = "sql" => fabricConnected
    /\ connectionType = "semantic_model" => semanticModelConnected

\* the step at which a connect attempt of the mounted component ends
FabricEnds == fabric.ended = "none" /\ fabric'.ended # "none"
PowerBIEnds == powerbi.ended = "none" /\ powerbi'.ended # "none"

\* C28 (as claimed): a connect attempt ends with loading = false and with the
\* component connected or showing an error message; after an attempt that
\* did not connect the parent holds connected = false for the data source
\* and the component is not connected.
C28_ConnectAttemptEnds ==
  [][ /\ FabricEnds =>
           /\ ~fabric'.loading
           /\ fabric'.connected \/ fabric'.error # ""
           /\ fabric'.ended # "success" => (~fabric'.connected /\ ~fabricConnected')
      /\ PowerBIEnds =>
           /\ ~powerbi'.loading
           /\ powerbi'.connected \/ powerbi'.error # ""
           /\ powerbi'.ended # "success" =>
                 (~powerbi'.connected /\ ~semanticModelConnected')
    ]_vars

\* ===================================================================
\* Properties of the caches (specification SpecCache)
\* ===================================================================
Keys(cache) == {cache[i].question : i \in 1..Len(cache)}

\* C15 (as claimed): a similarity lookup that hits returns a query stored
\* under the identity the lookup is made under, and a schema lookup returns
\* the schema discovered on the identity it is made under.
C15_IdentityIsolation ==
  /\ (served.hit => served.by = served.under)
  /\ (schemaServed.under # NoConnection => schemaServed.schema = schemaServed.under)

\* the step of a store operation
IsStore == clock' = clock + 1

\* C18: the similarity cache never holds more than cache_capacity entries nor
\* two entries of one fingerprint. A store for a fingerprint already present
\* replaces that entry and removes no other; a store of a new fingerprint into
\* a full cache removes exactly one entry, the one whose last store is the
\* oldest; any other store removes nothing. The entries that stay are not
\* changed.
C18_CapacityLRU ==
  /\ [](Len(query_similarity_cache) <= cache_capacity)
  /\ [](Cardinality(Keys(query_similarity_cache)) = Len(query_similarity_cache))
  /\ [][ IsStore =>
          LET old == query_similarity_cache
              new == query_similarity_cache'
              q   == lastStore'.question
              evicted == Keys(old) \ Keys(new) IN
          /\ HasKey(new, q)
          /\ StoredEntry(new, q).query = lastStore'.query
          /\ Keys(new) = (Keys(old) \ evicted) \cup {q}
          /\ \A k \in Keys(new) \ {q} : StoredEntry(new, k) = StoredEntry(old, k)
          /\ IF q \in Keys(old) \/ Len(old) < cache_capacity
             THEN evicted = {}
             ELSE /\ Cardinality(evicted) = 1
                  /\ \A v \in evicted, k \in Keys(old) : stored[v].at <= stored[k].at
     ]_vars

\* a full cache after an overwrite and an eviction: QA, QB stored, QA stored
\* again, then QC, which evicts QB
C18_Witness ==
  /\ clock = 4
  /\ Len(query_similarity_cache) = cache_capacity
  /\ Keys(query_similarity_cache) = {QA, QC}
  /\ stored[QA].at = 3 /\ stored[QB].at = 2 /\ stored[QC].at = 4
  /\ stored[QB].under = connection["sql"]

\* ===================================================================
\* Properties of SchemaCache (specification SpecSchema)
\* ===================================================================
\* C14: in each cold period of a connection identity at most one discovery
\* pass is issued, whatever the number of callers, and exactly one once a
\* caller has asked; a pass is in flight only while the cache is fetching;
\* and every caller served in the period holds the schema that this pass
\* produced, the one the cache holds.
C14_SingleFlight ==
  /\ \A id \in SchemaKeys :
        /\ schemaCache[id].passes <= 1
        /\ schemaCache[id].pending = (IF schemaCache[id].state = "fetching" THEN 1 ELSE 0)
        /\ (schemaCache[id].state # "cold" => schemaCache[id].passes = 1)
  /\ \A c \in Callers :
        /\ (callers[c].at = "waiting" /\ callers[c].epoch = schemaCache[callers[c].id].epoch)
              => schemaCache[callers[c].id].state = "fetching"
        /\ (callers[c].at = "done" /\ callers[c].epoch = schemaCache[callers[c].id].epoch)
              => /\ schemaCache[callers[c].id].state = "warm"
                 /\ callers[c].schema = schemaCache[callers[c].id].schema

\* three callers asked for the same identity while it was cold, in its second
\* cold period, and all hold the schema of the one pass
C14_Witness ==
  LET id == <<"sql", "ep1", "db1">> IN
  /\ schemaCache[id].epoch = 2 /\ schemaCache[id].passes = 1
  /\ schemaCache[id].state = "warm" /\ schemaCache[id].schema = "S2"
  /\ \A c \in 1..3 : callers[c] = [at |-> "done", id |-> id, schema |-> "S2",
                                   epoch |-> 2, waited |-> TRUE]

\* ===================================================================
\* Properties of concurrent sessions (specification SpecSessions)
\* ===================================================================
\* the question of a context entry: `Q: ${question}...`
EntryQuestion(entry) == entry[2]

\* C16 (as claimed): no conversation context holds entries of two sessions:
\* the conversationContext of a session and the context_history sent with its
\* question hold only entries of turns of that session, and the history that
\* ContextManager keeps for follow-up questions holds the turns of one
\* session only.
C16_SessionIsolation ==
  /\ \A s \in SessionIds :
       /\ \A i \in 1..Len(sessions[s].conversationContext) :
             SessionOf(EntryQuestion(sessions[s].conversationContext[i])) = s
       /\ \A i \in 1..Len(sessions[s].inflight.context_history) :
             SessionOf(EntryQuestion(sessions[s].inflight.context_history[i])) = s
  /\ \A i, j \in 1..Len(conversation_history) :
       SessionOf(conversation_history[i].question) =
          SessionOf(conversation_history[j].question)

\* ===================================================================
\* Properties of the monitoring dashboard (specification SpecMonitor)
\* ===================================================================
HistoryCap == HistoryKeep + 1
Series == {"cacheHitRate", "systemHealth", "performance"}
\* the answer of a poll is handled
PollHandled == pollsInFlight' = pollsInFlight - 1

\* the values one answer puts into the three series
ValuesOf(r) ==
  [cacheHitRate |-> r.hit_rate_percentage, systemHealth |-> r.score,
   performance |-> r.cpu_usage_percent]

\* C29: each history series holds at most 20 points at any time; a
\* successful poll puts the point of its answer last, keeps the points held
\* before in their order and drops the first of them, the oldest, once 20
\* are held; a failed poll leaves the three series unchanged.
C29_HistoryBounded ==
  /\ [](\A k \in Series : Len(historicalData[k]) <= HistoryCap)
  /\ [][PollHandled =>
          IF lastPoll' = "failed"
          THEN historicalData' = historicalData
          ELSE \E r \in MonitorResponses :
               \A k \in Series :
                 LET old == historicalData[k]
                     new == historicalData'[k] IN
                 /\ Len(new) >= 1
                 /\ Last(new).value = ValuesOf(r)[k]
                 /\ SubSeq(new, 1, Len(new) - 1) =
                       IF Len(old) = HistoryCap THEN Tail(old) ELSE old]_vars

\* 20 points are held, the oldest one has been dropped, the last two points
\* bear the same timestamp, and the last poll has failed
C29_Witness ==
  /\ lastPoll = "failed"
  /\ \A k \in Series :
        /\ Len(historicalData[k]) = HistoryCap
        /\ historicalData[k][1].timestamp > 1
        /\ historicalData[k][HistoryCap].timestamp =
              historicalData[k][HistoryCap - 1].timestamp
  /\ historicalData.cacheHitRate[HistoryCap].value = 75

\* ===================================================================
\* Properties of the chart (specification SpecChart)
\* ===================================================================
\* C30 (as claimed): with data present renderChart returns a chart: the
\* chart of the current type, and the bar chart when the current type is
\* none of line, area, bar, pie and scatter.
C30_RenderChartFallsBack ==
  (chart.rows > 0 /\ chart.rendered # "none") =>
     chart.rendered = IF currentType(chart) \in ChartTypes
                      THEN currentType(chart) ELSE "bar"
====
